---- MODULE Spec2Model ----
\* Model of the Aang air-quality ML pipeline:
\*   ml_model/api.py          the Flask predictor service
\*   ml_model/train_model.py  the offline AdaBoost trainer
EXTENDS Integers, Sequences, FiniteSets, TLC

\* ---------------------------------------------------------------- bounds
MaxLabels == 2      \* longest label list a bundle carries
MaxProbs == 2       \* longest distribution predict_proba returns
ProbUnit == 3       \* probabilities are multiples of 1/ProbUnit
MaxRows == 6        \* largest training dataset

\* ---------------------------------------------------------------- values
\* Python's None for the model / scaler globals, and the objects a bundle holds.
None == "None"
ModelObj == "AdaBoostClassifier"
ScalerObj == "StandardScaler"

\* Class names in alphabetical order (the order LabelEncoder.classes_ has).
ClassPool == <<"Good", "Moderate", "Poor">>

RECURSIVE SubSeqByIdx(_, _, _)
\* the subsequence of s at the positions in idx, kept in the order of s
SubSeqByIdx(s, idx, i) ==
    IF i > Len(s) THEN <<>>
    ELSE (IF i \in idx THEN <<s[i]>> ELSE <<>>) \o SubSeqByIdx(s, idx, i + 1)

\* label lists a bundle can carry: distinct names, alphabetical order
LabelLists ==
    { SubSeqByIdx(ClassPool, idx, 1) :
        idx \in { S \in SUBSET (1..Len(ClassPool)) : Cardinality(S) <= MaxLabels } }

\* ---------------------------------------------------------------- the bundle file
BundleKeys == <<"model", "scaler", "classes", "feature_names">>

\* The global `bundle` before the load (None).
NoBundle == [present |-> FALSE, keys |-> {}, classes |-> <<>>]

\* What pickle.load can find at BUNDLE_PATH: nothing readable, or a dict that
\* holds the first k keys load_model_bundle reads (k = 0..4).
CorruptFile == [readable |-> FALSE, keys |-> {}, classes |-> <<>>]

BundleFiles ==
    {CorruptFile} \cup
    { [readable |-> TRUE, keys |-> {BundleKeys[j] : j \in 1..k}, classes |-> <<>>] :
        k \in 0..2 } \cup
    { [readable |-> TRUE, keys |-> {BundleKeys[j] : j \in 1..k}, classes |-> lc] :
        k \in 3..4, lc \in LabelLists }

\* ---------------------------------------------------------------- requests
required_fields == <<"temperature", "co2", "pm25", "humidity">>
Fields == {required_fields[i] : i \in 1..Len(required_fields)}

\* JSON values of a field: <<"num", x>> the number x, <<"str", x>> a string that
\* spells the number x, <<"bad", 0>> a string that spells no number; Absent marks
\* a key the object does not have.
Absent == <<"absent", 0>>
JsonValues == {<<"num", 1>>, <<"bad", 0>>}

\* request.get_json(): a JSON object, JSON null, or a body that does not parse
Bodies ==
    { [kind |-> "object", data |-> d] : d \in [Fields -> JsonValues \cup {Absent}] } \cup
    { [kind |-> k, data |-> [f \in Fields |-> Absent]] : k \in {"null", "malformed"} }

\* ---------------------------------------------------------------- the classifier
RECURSIVE SeqSum(_)
SeqSum(s) == IF s = <<>> THEN 0 ELSE Head(s) + SeqSum(Tail(s))

\* predict_proba rows: non-empty, entries in units of 1/ProbUnit, summing to 1
Distributions ==
    UNION { { p \in [1..n -> 0..ProbUnit] : SeqSum(p) = ProbUnit } : n \in 1..MaxProbs }

\* class indices model.predict can return
Indices == (0 - (MaxLabels + 1))..(MaxLabels + 1)

\* What scaler.transform, model.predict and model.predict_proba do for one
\* request: the first call that raises (or "none"), and the values returned.
Outcomes ==
    { [raised |-> r, pred |-> 0, proba |-> <<ProbUnit>>] : r \in {"transform", "predict"} } \cup
    { [raised |-> "predict_proba", pred |-> i, proba |-> <<ProbUnit>>] : i \in Indices } \cup
    { [raised |-> "none", pred |-> i, proba |-> p] : i \in Indices, p \in Distributions }

NoOutcome == [raised |-> "unused", pred |-> 0, proba |-> <<ProbUnit>>]

\* ---------------------------------------------------------------- state
VARIABLES
    pc,             \* "import" while the module is being imported, then "serving"
    bundle,         \* api.py global `bundle`
    model,          \* api.py global `model`
    scaler,         \* api.py global `scaler`
    label_classes,  \* api.py global `label_classes`
    load_ok,        \* the value load_model_bundle() returned
    req,            \* the body of the last request
    ext,            \* what the scaler and the classifier did for the last request
    calls,          \* the collaborator calls the last request made, in order
    resp,           \* the response to the last request
    tpc,            \* trainer: the statement train_model.py is at
    df,             \* trainer: the dataset read from the CSV
    le_classes,     \* trainer: LabelEncoder.classes_
    y,              \* trainer: the encoded label of every row
    X_train,        \* trainer: rows of the training split
    X_test,         \* trainer: rows of the held-out split
    X_train_smote,  \* trainer: the rebalanced training samples
    smote_input,    \* trainer: the rows SMOTE interpolated from
    scaler_fit_on,  \* trainer: the samples the scaler's mean/std come from
    X_train_smote_scaled, \* trainer: the training samples after scaler.fit_transform
    X_test_scaled,  \* trainer: the held-out samples after scaler.transform
    clf_fit_on,     \* trainer: the samples the classifier was fit on
    eval_on,        \* trainer: the samples the metrics were computed on
    steps,          \* trainer: the steps completed so far, in order
    saved           \* trainer: the bundle save_model_bundle wrote

svc == <<pc, bundle, model, scaler, label_classes, load_ok>>
obs == <<req, ext, calls, resp>>
api == <<pc, bundle, model, scaler, label_classes, load_ok, req, ext, calls, resp>>
trainer == <<tpc, df, le_classes, y, X_train, X_test, X_train_smote, smote_input,
             scaler_fit_on, X_train_smote_scaled, X_test_scaled, clf_fit_on, eval_on, steps, saved>>
vars == <<pc, bundle, model, scaler, label_classes, load_ok, req, ext, calls, resp,
          tpc, df, le_classes, y, X_train, X_test, X_train_smote, smote_input,
          scaler_fit_on, X_train_smote_scaled, X_test_scaled, clf_fit_on, eval_on,
          steps, saved>>

\* ---------------------------------------------------------------- responses
NoError == <<"", "">>
NoInput == [f \in Fields |-> 0]

BlankResponse ==
    [route |-> "none", status |-> 0, error |-> NoError, prediction |-> 0,
     label |-> "", confidence |-> 0, probabilities |-> <<>>, input |-> NoInput,
     model_loaded |-> FALSE, scaler_loaded |-> FALSE, classes |-> <<>>]

\* jsonify({'error': ...}), status
ErrorResponse(status, msg, detail) ==
    [BlankResponse EXCEPT !.route = "/predict", !.status = status,
                          !.error = <<msg, detail>>]

Unavailable == "Model or scaler not loaded"
MissingField == "Missing field: "

\* ---------------------------------------------------------------- load_model_bundle
\* the number of statements of the try block that ran before one raised:
\* 0 pickle.load, 1 bundle['model'], 2 bundle['scaler'], 3 bundle['classes'],
\* 4 bundle['feature_names'] in the print, 5 none raised
RECURSIVE KeysRead(_, _)
KeysRead(file, k) ==
    IF k > Len(BundleKeys) THEN 0
    ELSE IF BundleKeys[k] \in file.keys THEN 1 + KeysRead(file, k + 1)
    ELSE 0

LoadProgress(file) == IF ~file.readable THEN 0 ELSE 1 + KeysRead(file, 1)

LoadedBundle(file) ==
    IF LoadProgress(file) >= 1
    THEN [present |-> TRUE, keys |-> file.keys, classes |-> file.classes]
    ELSE NoBundle

LoadedModel(file) == IF LoadProgress(file) >= 2 THEN ModelObj ELSE None

LoadedScaler(file) == IF LoadProgress(file) >= 3 THEN ScalerObj ELSE None

LoadedClasses(file) == IF LoadProgress(file) >= 4 THEN file.classes ELSE <<>>

LoadReturn(file) == LoadProgress(file) = 5

\* the module-level call `load_model_bundle()` made once while api.py is imported
load_model_bundle ==
    /\ pc = "import"
    /\ \E file \in BundleFiles :
        /\ bundle' = LoadedBundle(file)
        /\ model' = LoadedModel(file)
        /\ scaler' = LoadedScaler(file)
        /\ label_classes' = LoadedClasses(file)
        /\ load_ok' = LoadReturn(file)
    /\ pc' = "serving"
    /\ UNCHANGED <<obs, trainer>>

\* ---------------------------------------------------------------- GET / and GET /health
index ==
    /\ pc = "serving"
    /\ resp' = [BlankResponse EXCEPT !.route = "/", !.status = 200,
                                     !.classes = label_classes]
    /\ req' = [kind |-> "none", data |-> [f \in Fields |-> Absent]]
    /\ ext' = NoOutcome
    /\ calls' = <<>>
    /\ UNCHANGED <<svc, trainer>>

\* health_check that retries the load when the model is missing
health_check_reload ==
    /\ pc = "serving"
    /\ resp' = [BlankResponse EXCEPT !.route = "/health", !.status = 200,
                                     !.model_loaded = (model # None),
                                     !.scaler_loaded = (scaler # None)]
    /\ req' = [kind |-> "none", data |-> [f \in Fields |-> Absent]]
    /\ ext' = NoOutcome
    /\ calls' = <<>>
    /\ IF model = None
       THEN \E file \in BundleFiles :
               /\ bundle' = LoadedBundle(file)
               /\ model' = LoadedModel(file)
               /\ scaler' = LoadedScaler(file)
               /\ label_classes' = LoadedClasses(file)
               /\ load_ok' = LoadReturn(file)
       ELSE UNCHANGED <<bundle, model, scaler, label_classes, load_ok>>
    /\ UNCHANGED <<pc, trainer>>

health_check ==
    /\ pc = "serving"
    /\ resp' = [BlankResponse EXCEPT !.route = "/health", !.status = 200,
                                     !.model_loaded = (model # None),
                                     !.scaler_loaded = (scaler # None)]
    /\ req' = [kind |-> "none", data |-> [f \in Fields |-> Absent]]
    /\ ext' = NoOutcome
    /\ calls' = <<>>
    /\ UNCHANGED <<svc, trainer>>

\* ---------------------------------------------------------------- POST /predict
\* FirstMissing with the loop variable read one iteration late: names the field
\* after the missing one
RECURSIVE FirstMissing_next_field(_, _)
FirstMissing_next_field(data, i) ==
    IF i > Len(required_fields) THEN 0
    ELSE IF data[required_fields[i]] = Absent
         THEN (IF i < Len(required_fields) THEN i + 1 ELSE 1)
    ELSE FirstMissing_next_field(data, i + 1)

\* the first required field that is not in data (0 when all are there):
\* the loop `for field in required_fields: if field not in data`
RECURSIVE FirstMissing(_, _)
FirstMissing(data, i) ==
    IF i > Len(required_fields) THEN 0
    ELSE IF data[required_fields[i]] = Absent THEN i
    ELSE FirstMissing(data, i + 1)

\* float(v): numbers and numeric strings convert, anything else raises
CanFloat(v) == v[1] \in {"num", "str"}

Float(v) == v[2]

\* the first of the four float(data[...]) conversions that raises (0 when none)
RECURSIVE FirstUncoercible(_, _)
FirstUncoercible(data, i) ==
    IF i > Len(required_fields) THEN 0
    ELSE IF ~CanFloat(data[required_fields[i]]) THEN i
    ELSE FirstUncoercible(data, i + 1)

\* Python list indexing lc[i]: positions 0..len-1, negative i counts from the end
PyIndexInRange(lc, i) == (0 - Len(lc)) <= i /\ i < Len(lc)

PyIndex(lc, i) == IF i >= 0 THEN lc[i + 1] ELSE lc[Len(lc) + i + 1]

\* label_classes[int(prediction)] if int(prediction) < len(label_classes) else 'Unknown'
LabelRaises(lc, prediction) == prediction < Len(lc) /\ ~PyIndexInRange(lc, prediction)

PredictionLabel(lc, prediction) ==
    IF prediction < Len(lc) THEN PyIndex(lc, prediction) ELSE "Unknown"

\* max(probabilities)
RECURSIVE SeqMax(_)
SeqMax(s) == IF Len(s) = 1 THEN s[1]
             ELSE LET m == SeqMax(Tail(s)) IN IF Head(s) >= m THEN Head(s) ELSE m

\* Confidence taken from the first class instead of the maximum
Confidence_first(probabilities) == probabilities[1]

Confidence(probabilities) == SeqMax(probabilities)

\* prob_dict[label] = v on an insertion-ordered dict kept as <<key, value>> pairs
DictSet(d, k, v) ==
    IF \E j \in 1..Len(d) : d[j][1] = k
    THEN [j \in 1..Len(d) |-> IF d[j][1] = k THEN <<k, v>> ELSE d[j]]
    ELSE Append(d, <<k, v>>)

\* BuildProbDict with the bound `i < len(probabilities) - 1`
RECURSIVE BuildProbDict_drop_last(_, _, _, _)
BuildProbDict_drop_last(lc, probabilities, i, d) ==
    IF i >= Len(lc) THEN d
    ELSE BuildProbDict_drop_last(lc, probabilities, i + 1,
            IF i < Len(probabilities) - 1
            THEN DictSet(d, lc[i + 1], probabilities[i + 1])
            ELSE d)

\* for i, label in enumerate(label_classes): if i < len(probabilities): ...
RECURSIVE BuildProbDict(_, _, _, _)
BuildProbDict(lc, probabilities, i, d) ==
    IF i >= Len(lc) THEN d
    ELSE BuildProbDict(lc, probabilities, i + 1,
            IF i < Len(probabilities) THEN DictSet(d, lc[i + 1], probabilities[i + 1])
            ELSE d)

\* whether a request gets as far as scaler.transform
ReachesInference(m, s, body) ==
    /\ m # None /\ s # None
    /\ body.kind = "object"
    /\ FirstMissing(body.data, 1) = 0
    /\ FirstUncoercible(body.data, 1) = 0

\* the handler body from the first collaborator call on: lines 116-143
Infer(lc, body, o) ==
    IF o.raised = "transform"
    THEN [resp |-> ErrorResponse(500, "scaler.transform raised", ""),
          calls |-> <<"get_json", "transform">>]
    ELSE IF o.raised = "predict"
    THEN [resp |-> ErrorResponse(500, "model.predict raised", ""),
          calls |-> <<"get_json", "transform", "predict">>]
    ELSE IF o.raised = "predict_proba"
    THEN [resp |-> ErrorResponse(500, "model.predict_proba raised", ""),
          calls |-> <<"get_json", "transform", "predict", "predict_proba">>]
    ELSE IF LabelRaises(lc, o.pred)
    THEN [resp |-> ErrorResponse(500, "list index out of range", ""),
          calls |-> <<"get_json", "transform", "predict", "predict_proba">>]
    ELSE [resp |-> [BlankResponse EXCEPT
                      !.route = "/predict", !.status = 200,
                      !.prediction = o.pred,
                      !.label = PredictionLabel(lc, o.pred),
                      !.confidence = Confidence(o.proba),
                      !.probabilities = BuildProbDict(lc, o.proba, 0, <<>>),
                      !.input = [f \in Fields |-> Float(body.data[f])]],
          calls |-> <<"get_json", "transform", "predict", "predict_proba">>]

\* Coerce with a conversion failure reported as a bad request
Coerce_bad_request(lc, body, o) ==
    IF FirstUncoercible(body.data, 1) # 0
    THEN [resp |-> ErrorResponse(400, MissingField,
                                 required_fields[FirstUncoercible(body.data, 1)]),
          calls |-> <<"get_json">>]
    ELSE Infer(lc, body, o)

\* lines 107-110: the four float(...) conversions, then the rest of the handler
Coerce(lc, body, o) ==
    IF FirstUncoercible(body.data, 1) # 0
    THEN [resp |-> ErrorResponse(500, "could not convert string to float", ""),
          calls |-> <<"get_json">>]
    ELSE Infer(lc, body, o)

\* lines 98-104: request.get_json() and the required-field loop
Validate(lc, body, o) ==
    IF body.kind = "malformed"
    THEN [resp |-> ErrorResponse(500, "Failed to decode JSON object", ""),
          calls |-> <<"get_json">>]
    ELSE IF body.kind = "null"
    THEN [resp |-> ErrorResponse(500, "argument of type 'NoneType' is not iterable", ""),
          calls |-> <<"get_json">>]
    ELSE IF FirstMissing(body.data, 1) # 0
    THEN [resp |-> ErrorResponse(400, MissingField,
                                 required_fields[FirstMissing(body.data, 1)]),
          calls |-> <<"get_json">>]
    ELSE Coerce(lc, body, o)

\* predict with the field validation moved in front of the loaded-state check
predict_validates_first(m, s, lc, body, o) ==
    IF body.kind = "object" /\ FirstMissing(body.data, 1) # 0
    THEN [resp |-> ErrorResponse(400, MissingField,
                                 required_fields[FirstMissing(body.data, 1)]),
          calls |-> <<"get_json">>]
    ELSE IF m = None \/ s = None
    THEN [resp |-> ErrorResponse(500, Unavailable, ""), calls |-> <<"get_json">>]
    ELSE Validate(lc, body, o)

\* the whole handler: the response and the collaborator calls it made
predict(m, s, lc, body, o) ==
    IF m = None \/ s = None
    THEN [resp |-> ErrorResponse(500, Unavailable, ""), calls |-> <<>>]
    ELSE Validate(lc, body, o)

\* one POST /predict request, from arrival to response
predict_request ==
    /\ pc = "serving"
    /\ \E body \in Bodies :
         \E o \in (IF ReachesInference(model, scaler, body) THEN Outcomes ELSE {NoOutcome}) :
            /\ req' = body
            /\ ext' = o
            /\ resp' = predict(model, scaler, label_classes, body, o).resp
            /\ calls' = predict(model, scaler, label_classes, body, o).calls
    /\ UNCHANGED <<svc, trainer>>

\* ---------------------------------------------------------------- train_model.py
\* A dataset: whether the CSV has the five columns the trainer reads, and the
\* Air_Quality_Label of every row (rows are numbered 1..n).
Datasets ==
    {[cols |-> FALSE, labels |-> <<>>]} \cup
    UNION { { [cols |-> TRUE, labels |-> l] :
                l \in [1..n -> {ClassPool[j] : j \in 1..Len(ClassPool)}] } : n \in 0..MaxRows }

NoDataset == [cols |-> FALSE, labels |-> <<>>]

Rows(d) == 1..Len(d.labels)

\* a sample: an original row of the CSV, or the k-th synthetic point of class c
Row(i) == <<"row", i, 0>>

Synthetic(c, k) == <<"synth", c, k>>

NoScaled == [samples |-> {}, scaled_by |-> {}]

\* LabelEncoder.fit: classes_ is the sorted list of the distinct labels
FitClasses(labels) ==
    SubSeqByIdx(ClassPool,
                {j \in 1..Len(ClassPool) : \E i \in 1..Len(labels) : labels[i] = ClassPool[j]}, 1)

\* LabelEncoder.transform: the 0-based position of each label in classes_
Encode(classes, labels) ==
    [i \in 1..Len(labels) |-> (CHOOSE j \in 1..Len(classes) : classes[j] = labels[i]) - 1]

\* the rows of a set whose encoded label is c
OfClass(rows, codes, c) == {i \in rows : codes[i] = c}

Codes(codes) == {codes[i] : i \in 1..Len(codes)}

\* test_size=0.2: n_test = ceil(0.2 n), n_train = n - n_test
NTest(n) == (n + 4) \div 5

NTrain(n) == n - NTest(n)

\* train_test_split(..., stratify=y) raises ValueError on these datasets
SplitRaises(codes) ==
    LET n == Len(codes) IN
    \/ n = 0
    \/ NTrain(n) = 0
    \/ \E c \in Codes(codes) : Cardinality(OfClass(1..n, codes, c)) < 2
    \/ NTrain(n) < Cardinality(Codes(codes))
    \/ NTest(n) < Cardinality(Codes(codes))

\* the training sets a stratified split can return: n_train rows, every class
\* represented in proportion (its share rounded down or up)
StratifiedTrainSets(codes) ==
    LET n == Len(codes) IN
    { T \in SUBSET (1..n) :
        /\ Cardinality(T) = NTrain(n)
        /\ \A c \in Codes(codes) :
             LET share == Cardinality(OfClass(1..n, codes, c)) * NTrain(n)
                 got == Cardinality(OfClass(T, codes, c))
             IN  (share \div n) <= got /\ got <= ((share + n - 1) \div n) }

\* SMOTE(random_state=42).fit_resample: every class is filled up to the size of
\* the largest with synthetic points interpolated between rows of the input
MaxCount(rows, codes) ==
    LET counts == {Cardinality(OfClass(rows, codes, c)) : c \in Codes(codes)}
    IN  CHOOSE m \in counts : \A k \in counts : k <= m

Resample(rows, codes) ==
    {Row(i) : i \in rows} \cup
    { s \in { Synthetic(c, k) : c \in Codes(codes), k \in 1..MaxRows } :
        s[3] <= MaxCount(rows, codes) - Cardinality(OfClass(rows, codes, s[2])) }

\* pd.read_csv(csv_path), line 32
read_csv ==
    /\ tpc = "read_csv"
    /\ \E d \in Datasets : df' = d
    /\ tpc' = "encode"
    /\ UNCHANGED <<api, le_classes, y, X_train, X_test, X_train_smote, smote_input,
                   scaler_fit_on, X_train_smote_scaled, X_test_scaled, clf_fit_on,
                   eval_on, steps, saved>>

\* lines 36-40: select the four feature columns, fit and apply the LabelEncoder
encode_labels ==
    /\ tpc = "encode"
    /\ IF ~df.cols
       THEN /\ tpc' = "raised"
            /\ UNCHANGED <<le_classes, y, steps>>
       ELSE /\ le_classes' = FitClasses(df.labels)
            /\ y' = Encode(FitClasses(df.labels), df.labels)
            /\ steps' = Append(steps, "encode")
            /\ tpc' = "split"
    /\ UNCHANGED <<api, df, X_train, X_test, X_train_smote, smote_input, scaler_fit_on,
                   X_train_smote_scaled, X_test_scaled, clf_fit_on, eval_on, saved>>

\* lines 47-49: train_test_split(X, y, test_size=0.2, random_state=42, stratify=y)
split_data ==
    /\ tpc = "split"
    /\ IF SplitRaises(y)
       THEN /\ tpc' = "raised"
            /\ UNCHANGED <<X_train, X_test, steps>>
       ELSE /\ \E T \in StratifiedTrainSets(y) :
                 /\ X_train' = T
                 /\ X_test' = Rows(df) \ T
            /\ steps' = Append(steps, "split")
            /\ tpc' = "smote"
    /\ UNCHANGED <<api, df, le_classes, y, X_train_smote, smote_input, scaler_fit_on,
                   X_train_smote_scaled, X_test_scaled, clf_fit_on, eval_on, saved>>

\* apply_smote resampling the whole dataset instead of the training split
apply_smote_all_rows ==
    /\ tpc = "smote"
    /\ \/ /\ tpc' = "raised"
          /\ UNCHANGED <<X_train_smote, smote_input, steps>>
       \/ /\ smote_input' = Rows(df)
          /\ X_train_smote' = Resample(Rows(df), y)
          /\ steps' = Append(steps, "smote")
          /\ tpc' = "scale"
    /\ UNCHANGED <<api, df, le_classes, y, X_train, X_test, scaler_fit_on,
                   X_train_smote_scaled, X_test_scaled, clf_fit_on, eval_on, saved>>

\* lines 55-56: smote.fit_resample(X_train, y_train); it raises when a class has
\* too few rows for its nearest-neighbour search
apply_smote ==
    /\ tpc = "smote"
    /\ \/ /\ tpc' = "raised"
          /\ UNCHANGED <<X_train_smote, smote_input, steps>>
       \/ /\ smote_input' = X_train
          /\ X_train_smote' = Resample(X_train, y)
          /\ steps' = Append(steps, "smote")
          /\ tpc' = "scale"
    /\ UNCHANGED <<api, df, le_classes, y, X_train, X_test, scaler_fit_on,
                   X_train_smote_scaled, X_test_scaled, clf_fit_on, eval_on, saved>>

\* lines 62-64: scaler.fit_transform(X_train_smote), then scaler.transform(X_test)
scale_features ==
    /\ tpc = "scale"
    /\ scaler_fit_on' = X_train_smote
    /\ X_train_smote_scaled' = [samples |-> X_train_smote, scaled_by |-> X_train_smote]
    /\ X_test_scaled' = [samples |-> {Row(i) : i \in X_test}, scaled_by |-> X_train_smote]
    /\ steps' = Append(steps, "scale")
    /\ tpc' = "fit"
    /\ UNCHANGED <<api, df, le_classes, y, X_train, X_test, X_train_smote, smote_input,
                   clf_fit_on, eval_on, saved>>

\* fit_classifier able to run before the scaler has been fit
fit_classifier_early ==
    /\ tpc \in {"scale", "fit"}
    /\ clf_fit_on' = X_train_smote_scaled
    /\ steps' = Append(steps, "fit")
    /\ tpc' = "evaluate"
    /\ UNCHANGED <<api, df, le_classes, y, X_train, X_test, X_train_smote, smote_input,
                   scaler_fit_on, X_train_smote_scaled, X_test_scaled, eval_on, saved>>

\* lines 72-73: adaboost_classifier.fit(X_train_smote_scaled, y_train_smote)
fit_classifier ==
    /\ tpc = "fit"
    /\ clf_fit_on' = X_train_smote_scaled
    /\ steps' = Append(steps, "fit")
    /\ tpc' = "evaluate"
    /\ UNCHANGED <<api, df, le_classes, y, X_train, X_test, X_train_smote, smote_input,
                   scaler_fit_on, X_train_smote_scaled, X_test_scaled, eval_on, saved>>

\* lines 76-93: predict on X_test_scaled and score against y_test
evaluate ==
    /\ tpc = "evaluate"
    /\ eval_on' = X_test_scaled
    /\ steps' = Append(steps, "evaluate")
    /\ tpc' = "save"
    /\ UNCHANGED <<api, df, le_classes, y, X_train, X_test, X_train_smote, smote_input,
                   scaler_fit_on, X_train_smote_scaled, X_test_scaled, clf_fit_on, saved>>

\* lines 98-118: the bundle dict that is pickled
save_model_bundle ==
    /\ tpc = "save"
    /\ saved' = [present |-> TRUE,
                 keys |-> {BundleKeys[j] : j \in 1..Len(BundleKeys)} \cup {"label_encoder"},
                 classes |-> le_classes]
    /\ tpc' = "done"
    /\ UNCHANGED <<api, df, le_classes, y, X_train, X_test, X_train_smote, smote_input,
                   scaler_fit_on, X_train_smote_scaled, X_test_scaled, clf_fit_on,
                   eval_on, steps>>

\* ---------------------------------------------------------------- specifications
Init ==
    /\ pc = "import"
    /\ bundle = NoBundle
    /\ model = None
    /\ scaler = None
    /\ label_classes = <<>>
    /\ load_ok = FALSE
    /\ req = [kind |-> "none", data |-> [f \in Fields |-> Absent]]
    /\ ext = NoOutcome
    /\ calls = <<>>
    /\ resp = BlankResponse
    /\ tpc = "read_csv"
    /\ df = NoDataset
    /\ le_classes = <<>>
    /\ y = <<>>
    /\ X_train = {}
    /\ X_test = {}
    /\ X_train_smote = {}
    /\ smote_input = {}
    /\ scaler_fit_on = {}
    /\ X_train_smote_scaled = NoScaled
    /\ X_test_scaled = NoScaled
    /\ clf_fit_on = NoScaled
    /\ eval_on = NoScaled
    /\ steps = <<>>
    /\ saved = NoBundle

\* the predictor service: import api.py, then serve requests
Next == load_model_bundle \/ index \/ health_check \/ predict_request

Spec == Init /\ [][Next]_vars

\* the trainer: one run of train_model.py
TrainNext ==
    \/ read_csv
    \/ encode_labels
    \/ split_data
    \/ apply_smote
    \/ scale_features
    \/ fit_classifier
    \/ evaluate
    \/ save_model_bundle

SpecTrain == Init /\ [][TrainNext]_vars

\* ---------------------------------------------------------------- properties
LastWasPredict == resp.route = "/predict"

Ready == model # None /\ scaler # None

MissingSet(data) == {f \in Fields : data[f] = Absent}

Min(a, b) == IF a <= b THEN a ELSE b

IsPrefix(s, t) == Len(s) <= Len(t) /\ \A i \in 1..Len(s) : s[i] = t[i]

RECURSIVE DictValuesSum(_)
DictValuesSum(d) == IF d = <<>> THEN 0 ELSE Head(d)[2] + DictValuesSum(Tail(d))

DictValuesMax(d) == CHOOSE m \in {d[j][2] : j \in 1..Len(d)} :
                        \A j \in 1..Len(d) : d[j][2] <= m

InferenceCalls == {"transform", "predict", "predict_proba"}

CallsMade == {calls[i] : i \in 1..Len(calls)}

\* C1: after a failed load (load_model_bundle returned False) every /predict
\* answers 500 'Model or scaler not loaded', / and /health answer 200 and
\* /health reports model_loaded false.
C1_FailedLoadIsUnavailable ==
    (pc = "serving" /\ ~load_ok) =>
        /\ LastWasPredict => (resp.status = 500 /\ resp.error = <<Unavailable, "">>)
        /\ resp.route = "/health" => (resp.status = 200 /\ ~resp.model_loaded)
        /\ resp.route = "/" => resp.status = 200

\* C2 as stated: every /predict whose body omits required fields answers 400
\* 'Missing field: <name>' naming an omitted field, the omitted one when exactly
\* one is omitted.
C2_MissingFieldAlways400 ==
    (LastWasPredict /\ req.kind = "object" /\ MissingSet(req.data) # {}) =>
        /\ resp.status = 400
        /\ resp.error[1] = MissingField
        /\ resp.error[2] \in MissingSet(req.data)

\* C2 amended: when model and scaler are both loaded, every /predict whose JSON
\* object body omits required fields answers 400 'Missing field: <name>' naming
\* an omitted field (the omitted one when exactly one is omitted), whatever the
\* values of the other fields.
C2_MissingFieldWhenReady ==
    (LastWasPredict /\ Ready /\ req.kind = "object" /\ MissingSet(req.data) # {}) =>
        /\ resp.status = 400
        /\ resp.error[1] = MissingField
        /\ resp.error[2] \in MissingSet(req.data)

C2_Witness ==
    /\ LastWasPredict /\ Ready /\ req.kind = "object"
    /\ MissingSet(req.data) = {"pm25"}
    /\ req.data["temperature"] = <<"bad", 0>>
    /\ resp.status = 400 /\ resp.error = <<MissingField, "pm25">>

\* C3: in every 200 predict response the prediction is a valid position of the
\* label list and the label is the name at that position, or the label is
\* "Unknown"; no class index the classifier returns makes the request fail.
C3_LabelValidOrUnknown ==
    LastWasPredict =>
        /\ resp.status = 200 =>
             \/ /\ 0 <= resp.prediction /\ resp.prediction < Len(label_classes)
                /\ resp.label = label_classes[resp.prediction + 1]
             \/ resp.label = "Unknown"
        /\ ext.raised = "none" => resp.status = 200

\* C4 as stated: in every 200 predict response the values of 'probabilities' sum
\* to 1 and 'confidence' is the maximum value of that mapping, for any label
\* list and any distribution length.
C4_MappingSumsToOne ==
    (LastWasPredict /\ resp.status = 200) =>
        /\ resp.probabilities # <<>>
        /\ DictValuesSum(resp.probabilities) = ProbUnit
        /\ resp.confidence = DictValuesMax(resp.probabilities)

\* C4 amended: in every 200 predict response 'confidence' is the maximum of the
\* classifier's distribution; and when the label list is at least as long as the
\* distribution, the values of 'probabilities' sum to 1 and 'confidence' is the
\* maximum value of that mapping.
C4_ConfidenceIsDistributionMax ==
    (LastWasPredict /\ resp.status = 200) =>
        /\ \A i \in 1..Len(ext.proba) : ext.proba[i] <= resp.confidence
        /\ \E i \in 1..Len(ext.proba) : ext.proba[i] = resp.confidence
        /\ Len(label_classes) >= Len(ext.proba) =>
              /\ DictValuesSum(resp.probabilities) = ProbUnit
              /\ resp.confidence = DictValuesMax(resp.probabilities)

C4_Witness ==
    /\ LastWasPredict /\ resp.status = 200
    /\ Len(label_classes) = 2
    /\ ext.proba = <<1, 2>>
    /\ resp.confidence = 2

\* C5: once the startup load has finished, no request changes bundle, model,
\* scaler or label_classes, and the load is never run again.
C5_BundleFrozenAfterLoad ==
    [][pc = "serving" =>
         /\ pc' = "serving"
         /\ bundle' = bundle /\ model' = model /\ scaler' = scaler
         /\ label_classes' = label_classes /\ load_ok' = load_ok]_vars

C5_Witness ==
    /\ pc = "serving" /\ ~load_ok /\ model = None
    /\ resp.route = "/health" /\ ~resp.model_loaded

\* C6: when model and scaler are loaded and all four fields are present, a value
\* that float() rejects, or a scaler or classifier call that raises, gives a 500
\* with an error message and never the 400 'Missing field' response; such a
\* request leaves the state later requests are served from untouched.
C6_ProcessingErrorIs500 ==
    /\ []((LastWasPredict /\ Ready /\ req.kind = "object" /\ MissingSet(req.data) = {}
            /\ (FirstUncoercible(req.data, 1) # 0 \/ ext.raised \in InferenceCalls)) =>
              /\ resp.status = 500
              /\ resp.error[1] # MissingField
              /\ resp.error[1] # "")
    /\ [][(resp'.route = "/predict" /\ resp'.status = 500) => UNCHANGED svc]_vars

C6_Witness ==
    /\ LastWasPredict /\ Ready /\ req.kind = "object" /\ MissingSet(req.data) = {}
    /\ req.data["humidity"] = <<"bad", 0>>
    /\ resp.status = 500

\* C9: the loaded-state check comes first, then field validation, then float
\* coercion, then scaling and inference: an unloaded service answers 500
\* unavailable whatever the body, and a request rejected as unavailable or as
\* missing a field never calls the scaler or the classifier.
C9_CheckOrder ==
    LastWasPredict =>
        /\ ~Ready => (resp.status = 500 /\ resp.error = <<Unavailable, "">> /\ calls = <<>>)
        /\ (Ready /\ req.kind = "object" /\ MissingSet(req.data) # {}) => resp.status = 400
        /\ resp.status = 400 => (Ready /\ CallsMade \cap InferenceCalls = {})
        /\ CallsMade \cap InferenceCalls # {} =>
              (Ready /\ MissingSet(req.data) = {} /\ FirstUncoercible(req.data, 1) = 0)
        /\ IsPrefix(calls, <<"get_json", "transform", "predict", "predict_proba">>)

C9_Witness ==
    /\ LastWasPredict /\ ~Ready /\ req.kind = "object"
    /\ MissingSet(req.data) # {}
    /\ resp.status = 500 /\ calls = <<>>

\* C10: in every 200 predict response 'probabilities' has exactly one entry per
\* position i < min(number of labels, length of the distribution), keyed by the
\* i-th class name and holding the i-th probability; whatever the two lengths, a
\* request whose inference returned a non-negative index gets a 200.
C10_ProbabilitiesPerLabel ==
    LastWasPredict =>
        /\ resp.status = 200 =>
              /\ Len(resp.probabilities) = Min(Len(label_classes), Len(ext.proba))
              /\ \A i \in 1..Len(resp.probabilities) :
                    resp.probabilities[i] = <<label_classes[i], ext.proba[i]>>
        /\ (ext.raised = "none" /\ ext.pred >= 0) => resp.status = 200

C10_Witness ==
    /\ LastWasPredict /\ resp.status = 200
    /\ Len(label_classes) = 1 /\ Len(ext.proba) = 2
    /\ Len(resp.probabilities) = 1

\* ---------------------------------------------------------------- trainer properties
RowsOf(samples) == {smp[2] : smp \in {t \in samples : t[1] = "row"}}

SyntheticOf(samples) == {t \in samples : t[1] = "synth"}

Done(step) == \E i \in 1..Len(steps) : steps[i] = step

\* C7: SMOTE runs after the split and on the training split only, the scaler is
\* fit on the rebalanced training samples only, and the held-out split holds
\* only original rows, transformed by that scaler, never resampled and never
\* used to fit the scaler or the classifier.
C7_NoHeldOutLeak ==
    /\ Done("smote") =>
          /\ Done("split")
          /\ smote_input = X_train
          /\ smote_input \cap X_test = {}
          /\ RowsOf(X_train_smote) = X_train
    /\ Done("scale") =>
          /\ scaler_fit_on = X_train_smote
          /\ RowsOf(scaler_fit_on) \cap X_test = {}
          /\ X_test_scaled.samples = {Row(i) : i \in X_test}
          /\ X_test_scaled.scaled_by = scaler_fit_on
    /\ Done("fit") =>
          /\ clf_fit_on.samples = X_train_smote
          /\ RowsOf(clf_fit_on.samples) \cap X_test = {}
    /\ Done("evaluate") =>
          /\ eval_on = X_test_scaled
          /\ SyntheticOf(eval_on.samples) = {}
          /\ RowsOf(eval_on.samples) = X_test

C7_Witness ==
    /\ tpc = "done"
    /\ SyntheticOf(X_train_smote) # {}
    /\ X_test # {}
    /\ RowsOf(eval_on.samples) = X_test

\* C8 as stated: the steps complete in the order split, encode, rebalance,
\* scaler fit, classifier fit, evaluation.
C8_SplitBeforeEncode ==
    IsPrefix(steps, <<"split", "encode", "smote", "scale", "fit", "evaluate">>)

\* C8 amended: the steps complete in the order encode (over the whole dataset),
\* stratified split, rebalance, scaler fit, classifier fit, evaluation, each one
\* after the preceding one has completed.
C8_EncodeBeforeSplit ==
    IsPrefix(steps, <<"encode", "split", "smote", "scale", "fit", "evaluate">>)

C8_Witness ==
    /\ tpc = "done"
    /\ steps = <<"encode", "split", "smote", "scale", "fit", "evaluate">>

====
